---------------------------- MODULE Spec2Model ----------------------------
(* Model of the album-list -> playlist runner (run and its helpers in       *)
(* src/unnamed/part_000, called from src/cli.ts).                           *)
(*                                                                          *)
(* Strings are sequences of one-character strings.  An invocation of the    *)
(* /callback handler runs from one await to the next as one atomic step     *)
(* (the JavaScript event loop); its pc names the network call it awaits.    *)
(* The invocations are anonymous, so they are kept as a bag of records.     *)
EXTENDS Naturals, Sequences, FiniteSets, Bags, TLC

(* ------------------------------ bounds ---------------------------------- *)

\* Longest list of entries drawn by Init.
MaxEntries == 2

\* Number of /callback requests that may reach the handler in one run.
MaxDeliveries == 2

(* ------------------------------ strings --------------------------------- *)

Upper == <<"A","B","C","D","E","F","G","H","I","J","K","L","M",
           "N","O","P","Q","R","S","T","U","V","W","X","Y","Z">>

Lower == <<"a","b","c","d","e","f","g","h","i","j","k","l","m",
           "n","o","p","q","r","s","t","u","v","w","x","y","z">>

Digits == {"0","1","2","3","4","5","6","7","8","9"}

\* The characters the regular expression class \s matches, as far as modelled.
WhiteSpace == {" ", "\t", "\n"}

\* U+2019, the curly apostrophe.
CurlyApostrophe == "CURLY'"

Range(s) == {s[n] : n \in DOMAIN s}

\* String.prototype.toLowerCase, one character.
ToLowerChar(c) ==
    IF \E n \in DOMAIN Upper : Upper[n] = c
    THEN Lower[CHOOSE n \in DOMAIN Upper : Upper[n] = c]
    ELSE c

\* String.prototype.trim.
RECURSIVE TrimLeft(_)
TrimLeft(s) ==
    IF s # <<>> /\ Head(s) \in WhiteSpace THEN TrimLeft(Tail(s)) ELSE s

RECURSIVE TrimRight(_)
TrimRight(s) ==
    IF s # <<>> /\ s[Len(s)] \in WhiteSpace
    THEN TrimRight(SubSeq(s, 1, Len(s) - 1))
    ELSE s

Trim(s) == TrimRight(TrimLeft(s))

\* replace(/\s+/g, " "): every maximal run of whitespace becomes one space.
RECURSIVE CollapseSpaces(_)
CollapseSpaces(s) ==
    IF s = <<>> THEN <<>>
    ELSE IF Head(s) \in WhiteSpace
         THEN <<" ">> \o CollapseSpaces(TrimLeft(s))
         ELSE <<Head(s)>> \o CollapseSpaces(Tail(s))

\* The class [a-z0-9\s'-] whose complement is deleted.
NormKept(c) ==
    \/ c \in Range(Lower)
    \/ c \in Digits
    \/ c \in WhiteSpace
    \/ c \in {"'", "-"}

RECURSIVE ToLowerCase(_)
\* toLowerCase()
ToLowerCase(s) ==
    IF s = <<>> THEN <<>> ELSE <<ToLowerChar(Head(s))>> \o ToLowerCase(Tail(s))

RECURSIVE ReplaceAmp(_)
\* replace(/&/g, "and")
ReplaceAmp(s) ==
    IF s = <<>> THEN <<>>
    ELSE (IF Head(s) = "&" THEN <<"a","n","d">> ELSE <<Head(s)>>) \o ReplaceAmp(Tail(s))

RECURSIVE ReplaceApostrophe(_)
\* replace(/\u2019/g, "'")
ReplaceApostrophe(s) ==
    IF s = <<>> THEN <<>>
    ELSE (IF Head(s) = CurlyApostrophe THEN <<"'">> ELSE <<Head(s)>>)
             \o ReplaceApostrophe(Tail(s))

RECURSIVE StripOthers(_)
\* replace(/[^a-z0-9\s'-]/g, "")
StripOthers(s) ==
    IF s = <<>> THEN <<>>
    ELSE (IF NormKept(Head(s)) THEN <<Head(s)>> ELSE <<>>) \o StripOthers(Tail(s))

\* The steps with trim first instead of last.
normalizeTrimFirst(s) ==
    CollapseSpaces(StripOthers(ReplaceApostrophe(ReplaceAmp(ToLowerCase(Trim(s))))))

normalize(s) ==
    Trim(CollapseSpaces(StripOthers(ReplaceApostrophe(ReplaceAmp(ToLowerCase(s))))))

\* String.prototype.includes: sub occurs in s as a contiguous substring.
Includes(s, sub) ==
    \E n \in 1..(Len(s) + 1) :
        /\ n + Len(sub) - 1 <= Len(s)
        /\ SubSeq(s, n, n + Len(sub) - 1) = sub

keyFor(artist, album) == Trim(artist \o <<" ","-"," ">> \o album)

AlbumUriPrefix == <<"s","p","o","t","i","f","y",":","a","l","b","u","m",":">>

\* The override value used as it is.
albumIdFromOverrideRaw(v) == v

\* v.match(/^spotify:album:(.+)$/): the prefix and at least one more character.
albumIdFromOverride(v) ==
    IF /\ Len(v) > Len(AlbumUriPrefix)
       /\ SubSeq(v, 1, Len(AlbumUriPrefix)) = AlbumUriPrefix
       /\ "\n" \notin Range(v)
    THEN SubSeq(v, Len(AlbumUriPrefix) + 1, Len(v))
    ELSE v

(* ------------------------- the catalog service --------------------------- *)

\* Album identifiers and track identifiers of the modelled catalog.
AlbumA0 == <<"a","0">>

AlbumA1 == <<"a","1">>

\* limit=50 of the first track page request.
PageLimit == 50

\* The pages the service cuts for an album of these tracks at a page size.
ServerPages(tracks, limit) ==
    LET k == IF Len(tracks) = 0 THEN 1 ELSE (Len(tracks) + limit - 1) \div limit
    IN  [n \in 1..k |->
           [items |-> SubSeq(tracks, (n - 1) * limit + 1,
                             IF n * limit < Len(tracks) THEN n * limit ELSE Len(tracks)),
            next  |-> IF n * limit < Len(tracks) THEN n + 1 ELSE 0]]

\* An album of 130 tracks, numbered in catalog order, at the page size asked for.
Album130 == ServerPages([n \in 1..130 |-> n], PageLimit)

AlbumA2 == <<"a","2">>

AlbumA3 == <<"a","3">>

\* An album whose track pages link in a circle.
AlbumLoop == <<"a","9">>

\* Track pages of each album the catalog holds: items and the number of the
\* next page (0: next is null).  AlbumA0 has no tracks, AlbumA2 has 130 on
\* three pages, AlbumA3 has three on two pages; the second page of AlbumLoop
\* links back to its first.
CatalogPages ==
    (AlbumA0 :> << [items |-> <<>>, next |-> 0] >>) @@
    (AlbumA1 :> << [items |-> <<"t1","t2">>, next |-> 2],
                   [items |-> <<"t3">>, next |-> 0] >>) @@
    (AlbumA2 :> Album130) @@
    (AlbumA3 :> << [items |-> <<201>>, next |-> 2],
                   [items |-> <<202, 203>>, next |-> 0] >>) @@
    (AlbumLoop :> << [items |-> <<901>>, next |-> 2],
                     [items |-> <<>>, next |-> 1] >>)

\* Answer of the catalog to the strict query for (artist, album).
StrictResults(artist, album) ==
    IF album = <<"B">>
    THEN << [id |-> AlbumA0, name |-> <<"B">>, artists |-> << <<"Z">> >>],
            [id |-> AlbumA1, name |-> <<"b"," ">>, artists |-> << <<"A">> >>] >>
    ELSE IF album = <<"C">>
    THEN << [id |-> AlbumA1, name |-> <<"B">>, artists |-> << <<"A">> >>] >>
    ELSE <<>>

\* Answer of the catalog to the loose query for (artist, album).
LooseResults(artist, album) ==
    IF album = <<"C">>
    THEN << [id |-> AlbumA1, name |-> <<"C","c">>, artists |-> <<>>],
            [id |-> AlbumA0, name |-> <<"C","&">>, artists |-> << <<"a">> >>] >>
    ELSE <<>>

(* --------------------------- search selection ---------------------------- *)

\* Array.prototype.find, given for every item whether the test accepts it:
\* the first accepted item, or none.
FindFirst(items, accepted) ==
    IF \E n \in DOMAIN items : accepted[n]
    THEN [found |-> TRUE,
          item  |-> items[CHOOSE n \in DOMAIN items :
                              accepted[n] /\ \A m \in 1..(n - 1) : ~accepted[m]]]
    ELSE [found |-> FALSE]

\* it.artists[0]?.name || ""
FirstArtist(it) == IF it.artists = <<>> THEN <<>> ELSE it.artists[1]

\* strictBest without the first find: the first item of that name.
StrictBestNameOnly(artist, album, items) ==
    LET targetB == normalize(album)
        name == [n \in DOMAIN items |-> normalize(items[n].name) = targetB]
    IN  FindFirst(items, name)

\* strictBest of searchAlbum.
StrictBest(artist, album, items) ==
    LET targetA == normalize(artist)
        targetB == normalize(album)
        both == [n \in DOMAIN items |->
                    /\ normalize(items[n].name) = targetB
                    /\ normalize(FirstArtist(items[n])) = targetA]
        name == [n \in DOMAIN items |-> normalize(items[n].name) = targetB]
    IN  IF FindFirst(items, both).found
        THEN FindFirst(items, both)
        ELSE FindFirst(items, name)

\* The loose selection with every item in the pool.
LooseBestNoPool(artist, album, items) ==
    LET targetB == normalize(album)
        pool == items
        contains == [n \in DOMAIN pool |-> Includes(normalize(pool[n].name), targetB)]
        contained == [n \in DOMAIN pool |-> Includes(targetB, normalize(pool[n].name))]
    IN  IF FindFirst(pool, contains).found THEN FindFirst(pool, contains)
        ELSE IF FindFirst(pool, contained).found THEN FindFirst(pool, contained)
        ELSE IF pool # <<>> THEN [found |-> TRUE, item |-> pool[1]]
        ELSE [found |-> FALSE]

\* The value searchAlbum returns from the loose result set.
LooseBest(artist, album, items) ==
    LET targetA == normalize(artist)
        targetB == normalize(album)
        Same(it) == normalize(FirstArtist(it)) = targetA
        sameArtist == SelectSeq(items, Same)
        pool == IF Len(sameArtist) # 0 THEN sameArtist ELSE items
        contains == [n \in DOMAIN pool |-> Includes(normalize(pool[n].name), targetB)]
        contained == [n \in DOMAIN pool |-> Includes(targetB, normalize(pool[n].name))]
    IN  IF FindFirst(pool, contains).found THEN FindFirst(pool, contains)
        ELSE IF FindFirst(pool, contained).found THEN FindFirst(pool, contained)
        ELSE IF pool # <<>> THEN [found |-> TRUE, item |-> pool[1]]
        ELSE [found |-> FALSE]

(* ------------------------------ run inputs ------------------------------- *)

ArtistA == <<"A">>

\* Entries parseList can yield: the artist is never empty, the album is empty
\* for a line without " - ".
EntryUniverse ==
    { [artist |-> ArtistA, album |-> b] : b \in { <<>>, <<"B">>, <<"C">>, <<"D">> } }

SeqsUpTo(S, n) == UNION { [1..m -> S] : m \in 0..n }

\* Contents of overrides.json: none; or a pinned URI, an empty value and a
\* value that is the bare URI prefix.
OverrideMaps ==
    { <<>>,
      (keyFor(ArtistA, <<"B">>) :> (AlbumUriPrefix \o AlbumA1)) @@
      (keyFor(ArtistA, <<"C">>) :> <<>>) @@
      (keyFor(ArtistA, <<"D">>) :> AlbumUriPrefix) }

\* overrides[key]
Lookup(map, key) ==
    IF key \in DOMAIN map THEN [present |-> TRUE, value |-> map[key]]
    ELSE [present |-> FALSE, value |-> <<>>]

\* if (override): present and not the empty string.
Truthy(o) == o.present /\ o.value # <<>>

(* ------------------------------ run state -------------------------------- *)

VARIABLES
    entries,     \* parseList(listPath)
    overrides,   \* readJson(overridesPath, {})
    dryRun,      \* opts.dryRun
    misses,      \* the misses array of run, shared by every handler invocation
    serverOpen,  \* the auth server accepts requests (before server.close())
    h,           \* the invocations of the /callback handler, a bag of records
    remote,      \* the playlists of the service: identifier -> tracks
    reports,     \* every content written to missesPath, in order
    createCalls, \* createPlaylist requests sent so far
    gPc,         \* getAlbumTracks called alone: "off", "fetch" or "returned"
    gPages,      \* ... the track pages of the album it is called for
    gNext,       \* ... its variable next (a page number, 0: null)
    gUris,       \* ... its variable uris
    gFetched,    \* ... the pages it has requested, in order
    aPc,         \* addTracks called alone: "off", "post", "returned" or "threw"
    aUris,       \* ... its parameter uris
    aAt,         \* ... its loop variable i
    aSent,       \* ... the chunks it has posted, in order
    aDone,       \* ... how many of its requests have answered
    sPc,         \* searchAlbum called alone: "off", "strict", "loose", "returned"
    sTarget,     \* ... its parameters artist and album
    sStrict,     \* ... the items the strict query answers with
    sLoose,      \* ... the items the loose query answers with
    sCalls,      \* ... the search requests it has sent
    sResult,     \* ... the value it returns
    nPc,         \* normalize called alone: "off", "in", "once", "twice"
    nIn,         \* ... the string it is first called with
    nOnce,       \* ... normalize(nIn)
    nTwice       \* ... normalize(nOnce)

runVars == <<entries, overrides, dryRun, misses, serverOpen, h, remote, reports, createCalls>>

gatVars == <<gPc, gPages, gNext, gUris, gFetched>>

addVars == <<aPc, aUris, aAt, aSent, aDone>>

\* The state of the functions that are called alone.
srchVars == <<sPc, sTarget, sStrict, sLoose, sCalls, sResult>>

normVars == <<nPc, nIn, nOnce, nTwice>>

pureVars == <<gatVars, addVars, srchVars, normVars>>

vars == <<runVars, pureVars>>

\* addTracks is not called alone.
AddOff == aPc = "off" /\ aUris = <<>> /\ aAt = 0 /\ aSent = <<>> /\ aDone = 0

\* searchAlbum is not called alone.
SearchOff ==
    /\ sPc = "off"
    /\ sTarget = [artist |-> <<>>, album |-> <<>>]
    /\ sStrict = <<>>
    /\ sLoose = <<>>
    /\ sCalls = 0
    /\ sResult = [found |-> FALSE]

\* normalize is not called alone.
NormOff == nPc = "off" /\ nIn = <<>> /\ nOnce = <<>> /\ nTwice = <<>>

\* A created playlist without an identifier: playlistId stays null.
NewPlaylistIdNull(n) == <<"n", 0>>

\* The identifier the service gives the n-th playlist it creates.
NewPlaylistId(n) == <<"p", n>>

\* A playlist that exists before the run.
OldPlaylistId == <<"o", 0>>

\* No playlist: playlistId = null.
NoPlaylist == <<"n", 0>>

\* An invocation that awaits the token exchange: no local of the loop is set.
\* out is what the invocation has printed, one outcome per entry it finished.
NewHandler ==
    [pc |-> "token", i |-> 0, albumId |-> <<>>, next |-> 0, uris |-> <<>>,
     fetches |-> 0, playlistId |-> NoPlaylist, chunkAt |-> 0, out |-> <<>>,
     err |-> "none"]

Init ==
    /\ entries \in SeqsUpTo(EntryUniverse, MaxEntries)
    /\ overrides \in OverrideMaps
    /\ dryRun \in BOOLEAN
    /\ misses = <<>>
    /\ serverOpen = TRUE
    /\ h = EmptyBag
    /\ remote = (OldPlaylistId :> <<"t0">>)
    /\ reports = <<>>
    /\ createCalls = 0
    /\ gPc = "off"
    /\ gPages = <<>>
    /\ gNext = 0
    /\ gUris = <<>>
    /\ gFetched = <<>>
    /\ AddOff
    /\ SearchOff
    /\ NormOff

(* ----------------------- the body of the handler ------------------------- *)
(* A context c holds what one handler step reads and writes: its own        *)
(* record hd and the shared misses and reports.                             *)

\* An exception reaches the catch clause of the handler: its locals are dead,
\* what it printed stays.
Throw(c, kind) ==
    [c EXCEPT !.hd = [NewHandler EXCEPT !.pc = "failed", !.err = kind,
                                        !.out = c.hd.out]]

\* The exception of a failed insertion request of addTracks; the record
\* keeps which request it was: the entry and the offset of the chunk.
ThrowInsert(c) ==
    [c EXCEPT !.hd = [NewHandler EXCEPT !.pc = "failed", !.err = "insert",
                                        !.out = c.hd.out, !.i = c.hd.i,
                                        !.chunkAt = c.hd.chunkAt]]

\* console.log of the outcome of the current entry.
Log(c, outcome) == [c EXCEPT !.hd.out = Append(@, outcome)]

\* misses.push({ artist, album })
PushMiss(c, i) == [c EXCEPT !.misses = Append(@, entries[i])]

\* writeJson(missesPath, {..., dryRun, misses}) and "Done."
WriteReport(c) ==
    [c EXCEPT !.reports = Append(@, [dryRun |-> dryRun, misses |-> c.misses]),
              !.hd.pc = "done"]

\* getAlbumTracks up to its first await: the first page is requested.
StartTracks(c, albumId) ==
    [c EXCEPT !.hd.pc = "tracks", !.hd.albumId = albumId,
              !.hd.next = 1, !.hd.uris = <<>>, !.hd.fetches = 1]

\* The locals of one iteration of the loop are fresh in iteration i.
Iteration(c, i) ==
    [c EXCEPT !.hd.i = i, !.hd.albumId = <<>>, !.hd.next = 0, !.hd.uris = <<>>,
              !.hd.fetches = 0, !.hd.chunkAt = 0]

\* The test with the album forgotten: !artist only.
MalformedArtistOnly(e) == e.artist = <<>>

\* if (!artist || !album)
Malformed(e) == e.artist = <<>> \/ e.album = <<>>

RECURSIVE LoopFrom(_, _)
\* The for loop over entries from index i (1-based) up to the next await, or
\* to the report when the entries are exhausted.
LoopFrom(c, i) ==
    IF i > Len(entries) THEN WriteReport(Iteration(c, i))
    ELSE LET artist == entries[i].artist
             album == entries[i].album
             override == Lookup(overrides, keyFor(artist, album))
             d == Iteration(c, i)
         IN  IF Malformed(entries[i])
             THEN LoopFrom(PushMiss(Log(d, "SKIP"), i), i + 1)
             ELSE IF Truthy(override)
             THEN IF albumIdFromOverride(override.value) = <<>>
                  THEN LoopFrom(PushMiss(Log(d, "MISS"), i), i + 1)
                  ELSE StartTracks(d, albumIdFromOverride(override.value))
             ELSE [d EXCEPT !.hd.pc = "searchStrict"]

\* After searchAlbum returned: found is [found, item].
AfterSearch(c, found) ==
    IF ~found.found \/ found.item.id = <<>>
    THEN LoopFrom(PushMiss(Log(c, "MISS"), c.hd.i), c.hd.i + 1)
    ELSE StartTracks(c, found.item.id)

\* The size of one insertion request of addTracks.
ChunkSize == 100

\* The slice one identifier short: uris.slice(at, at + ChunkSize - 1).
ChunkShort(uris, at) ==
    SubSeq(uris, at + 1,
           IF at + ChunkSize - 1 < Len(uris) THEN at + ChunkSize - 1 ELSE Len(uris))

\* uris.slice(at, at + ChunkSize), at counted from 0.
Chunk(uris, at) ==
    SubSeq(uris, at + 1, IF at + ChunkSize < Len(uris) THEN at + ChunkSize ELSE Len(uris))

\* The continuation without the dry-run test.
AfterTracksNoDryRun(c) ==
    IF c.hd.playlistId = NoPlaylist
    THEN LoopFrom(PushMiss(Log(c, "ERROR"), c.hd.i), c.hd.i + 1)
    ELSE IF 0 < Len(c.hd.uris)
    THEN [c EXCEPT !.hd.pc = "insert", !.hd.chunkAt = 0]
    ELSE LoopFrom(Log(c, "OK"), c.hd.i + 1)

\* After getAlbumTracks returned c.hd.uris.
AfterTracks(c) ==
    IF dryRun THEN LoopFrom(Log(c, "WOULD ADD"), c.hd.i + 1)
    ELSE IF c.hd.playlistId = NoPlaylist
    THEN LoopFrom(PushMiss(Log(c, "ERROR"), c.hd.i), c.hd.i + 1)
    ELSE IF 0 < Len(c.hd.uris)
    THEN [c EXCEPT !.hd.pc = "insert", !.hd.chunkAt = 0]
    ELSE LoopFrom(Log(c, "OK"), c.hd.i + 1)

\* The context the invocation hd starts a step with.
Ctx(hd) == [hd |-> hd, misses |-> misses, reports |-> reports]

\* The step of the invocation hd ends in context c.
Commit(hd, c) ==
    /\ h' = (h (-) SetToBag({hd})) (+) SetToBag({c.hd})
    /\ misses' = c.misses
    /\ reports' = c.reports

(* ------------------------------- actions --------------------------------- *)

\* A GET /callback request reaches the handler: the code and state checks,
\* then the token exchange is sent.  hasCode: the query holds a code;
\* stateOk: its state equals the state of this run.
Deliver ==
    /\ serverOpen
    /\ BagCardinality(h) < MaxDeliveries
    /\ \E hasCode \in BOOLEAN, stateOk \in BOOLEAN :
         IF hasCode /\ stateOk
         THEN /\ h' = h (+) SetToBag({NewHandler})
              /\ UNCHANGED serverOpen
         ELSE /\ h' = h (+) SetToBag({Throw(Ctx(NewHandler), "auth").hd})
              /\ serverOpen' = FALSE
    /\ UNCHANGED <<pureVars, entries, overrides, dryRun, misses, remote, reports, createCalls>>

\* The token endpoint answers.  On success the server is closed; a live run
\* then asks for the user, a dry run enters the loop.
TokenResponse(hd) ==
    /\ hd.pc = "token"
    /\ \E ok \in BOOLEAN :
         IF ~ok THEN Commit(hd, Throw(Ctx(hd), "auth"))
         ELSE IF dryRun THEN Commit(hd, LoopFrom(Ctx(hd), 1))
         ELSE Commit(hd, [Ctx(hd) EXCEPT !.hd.pc = "getMe"])
    /\ serverOpen' = FALSE
    /\ UNCHANGED <<pureVars, entries, overrides, dryRun, remote, createCalls>>

\* GET /v1/me answers; createPlaylist is sent.
GetMeResponse(hd) ==
    /\ hd.pc = "getMe"
    /\ \E ok \in BOOLEAN :
         IF ~ok
         THEN /\ Commit(hd, Throw(Ctx(hd), "transport"))
              /\ UNCHANGED createCalls
         ELSE /\ Commit(hd, [Ctx(hd) EXCEPT !.hd.pc = "createPlaylist"])
              /\ createCalls' = createCalls + 1
    /\ serverOpen' = FALSE
    /\ UNCHANGED <<pureVars, entries, overrides, dryRun, remote>>

\* POST .../playlists answers: the service has created a new, empty playlist
\* and the loop over the entries starts.
CreatePlaylistResponse(hd) ==
    /\ hd.pc = "createPlaylist"
    /\ \E ok \in BOOLEAN :
         IF ~ok
         THEN /\ Commit(hd, Throw(Ctx(hd), "transport"))
              /\ UNCHANGED remote
         ELSE LET id == NewPlaylistId(Cardinality(DOMAIN remote))
              IN  /\ Commit(hd, LoopFrom([Ctx(hd) EXCEPT !.hd.playlistId = id], 1))
                  /\ remote' = remote @@ (id :> <<>>)
    /\ serverOpen' = FALSE
    /\ UNCHANGED <<pureVars, entries, overrides, dryRun, createCalls>>

\* The strict search answers: a strict match ends searchAlbum, otherwise the
\* loose query is sent.
StrictResponse(hd) ==
    /\ hd.pc = "searchStrict"
    /\ \E ok \in BOOLEAN :
         LET e == entries[hd.i]
             best == StrictBest(e.artist, e.album, StrictResults(e.artist, e.album))
         IN  IF ~ok THEN Commit(hd, Throw(Ctx(hd), "transport"))
             ELSE IF best.found THEN Commit(hd, AfterSearch(Ctx(hd), best))
             ELSE Commit(hd, [Ctx(hd) EXCEPT !.hd.pc = "searchLoose"])
    /\ serverOpen' = FALSE
    /\ UNCHANGED <<pureVars, entries, overrides, dryRun, remote, createCalls>>

\* The loose search answers.
LooseResponse(hd) ==
    /\ hd.pc = "searchLoose"
    /\ \E ok \in BOOLEAN :
         LET e == entries[hd.i]
             best == LooseBest(e.artist, e.album, LooseResults(e.artist, e.album))
         IN  IF ~ok THEN Commit(hd, Throw(Ctx(hd), "transport"))
             ELSE Commit(hd, AfterSearch(Ctx(hd), best))
    /\ serverOpen' = FALSE
    /\ UNCHANGED <<pureVars, entries, overrides, dryRun, remote, createCalls>>

\* The loop body with the page order lost: the new items go in front.
TracksStepPrepend(st, page) ==
    [uris |-> page.items \o st.uris, next |-> page.next]

\* The body of the while loop of getAlbumTracks after its fetch answered
\* with page: uris.push(...items); next = page.next.
TracksStep(st, page) ==
    [uris |-> st.uris \o page.items, next |-> page.next]

\* The loop without its exit: at the last page that page is requested again.
TracksPageNoExit(c, page) ==
    LET st == TracksStep([uris |-> c.hd.uris, next |-> c.hd.next], page)
    IN  [c EXCEPT !.hd.uris = st.uris,
                  !.hd.next = IF st.next # 0 THEN st.next ELSE c.hd.next,
                  !.hd.fetches = @ + 1]

\* One iteration of the while loop of getAlbumTracks in the handler: when
\* next is set the next page is requested, otherwise the function returns.
TracksPage(c, page) ==
    LET st == TracksStep([uris |-> c.hd.uris, next |-> c.hd.next], page)
        d == [c EXCEPT !.hd.uris = st.uris, !.hd.next = st.next]
    IN  IF st.next # 0
        THEN [d EXCEPT !.hd.fetches = @ + 1]
        ELSE AfterTracks(d)

\* Most track page requests of one getAlbumTracks call that are answered:
\* the loop itself has no bound.
MaxFetches == 4

\* A track page request answers; an album the catalog does not hold answers
\* with an error status.
TracksResponse(hd) ==
    /\ hd.pc = "tracks"
    /\ hd.fetches <= MaxFetches
    /\ \E ok \in BOOLEAN :
         IF ok /\ hd.albumId \in DOMAIN CatalogPages
         THEN Commit(hd, TracksPage(Ctx(hd), CatalogPages[hd.albumId][hd.next]))
         ELSE Commit(hd, Throw(Ctx(hd), "transport"))
    /\ serverOpen' = FALSE
    /\ UNCHANGED <<pureVars, entries, overrides, dryRun, remote, createCalls>>

\* addTracks with the loop left after its first request.
InsertDoneOnce(c) == LoopFrom(Log(c, "OK"), c.hd.i + 1)

\* One iteration of the for loop of addTracks after its request answered.
InsertDone(c) ==
    LET d == [c EXCEPT !.hd.chunkAt = @ + ChunkSize]
    IN  IF d.hd.chunkAt < Len(d.hd.uris)
        THEN d
        ELSE LoopFrom(Log(d, "OK"), d.hd.i + 1)

\* The playlist an insertion request names.
InsertTarget(hd) == hd.playlistId

\* An insertion request answers: on success the service has appended the
\* chunk to the playlist.
InsertResponse(hd) ==
    /\ hd.pc = "insert"
    /\ \E ok \in BOOLEAN :
         IF ~ok
         THEN /\ Commit(hd, ThrowInsert(Ctx(hd)))
              /\ UNCHANGED remote
         ELSE /\ Commit(hd, InsertDone(Ctx(hd)))
              /\ remote' = [remote EXCEPT ![InsertTarget(hd)] =
                                @ \o Chunk(hd.uris, hd.chunkAt)]
    /\ serverOpen' = FALSE
    /\ UNCHANGED <<pureVars, entries, overrides, dryRun, createCalls>>

Next ==
    \/ Deliver
    \/ \E hd \in BagToSet(h) : TokenResponse(hd)
    \/ \E hd \in BagToSet(h) : GetMeResponse(hd)
    \/ \E hd \in BagToSet(h) : CreatePlaylistResponse(hd)
    \/ \E hd \in BagToSet(h) : StrictResponse(hd)
    \/ \E hd \in BagToSet(h) : LooseResponse(hd)
    \/ \E hd \in BagToSet(h) : TracksResponse(hd)
    \/ \E hd \in BagToSet(h) : InsertResponse(hd)

Spec == Init /\ [][Next]_vars

(* ------------------------- live runs, long albums ------------------------- *)

\* Entries of the lists of InitBig: "D" is in no search result, "E" and "F"
\* are pinned.
BigUniverse ==
    { [artist |-> ArtistA, album |-> b] : b \in { <<"D">>, <<"E">>, <<"F">> } }

\* overrides.json of InitBig: "E" is pinned to the album of 130 tracks by its
\* bare identifier, "F" to the album of three tracks by its URI.
BigOverrides ==
    (keyFor(ArtistA, <<"E">>) :> AlbumA2) @@
    (keyFor(ArtistA, <<"F">>) :> (AlbumUriPrefix \o AlbumA3))

\* A live run over such a list.
InitBig ==
    /\ entries \in SeqsUpTo(BigUniverse, MaxEntries)
    /\ overrides = BigOverrides
    /\ dryRun = FALSE
    /\ misses = <<>>
    /\ serverOpen = TRUE
    /\ h = EmptyBag
    /\ remote = (OldPlaylistId :> <<"t0">>)
    /\ reports = <<>>
    /\ createCalls = 0
    /\ gPc = "off"
    /\ gPages = <<>>
    /\ gNext = 0
    /\ gUris = <<>>
    /\ gFetched = <<>>
    /\ AddOff
    /\ SearchOff
    /\ NormOff

SpecBig == InitBig /\ [][Next]_vars

(* ------------------- live runs, every request answered -------------------- *)

\* Entries of the lists of InitLive: "D" is in no search result, "F" and "G"
\* are pinned.
LiveUniverse ==
    { [artist |-> ArtistA, album |-> b] : b \in { <<"D">>, <<"F">>, <<"G">> } }

\* overrides.json of InitLive: "F" is pinned to the album of three tracks,
\* "G" to the album whose pages link in a circle.
LiveOverrides ==
    (keyFor(ArtistA, <<"F">>) :> (AlbumUriPrefix \o AlbumA3)) @@
    (keyFor(ArtistA, <<"G">>) :> AlbumLoop)

InitLive ==
    /\ entries \in SeqsUpTo(LiveUniverse, MaxEntries)
    /\ overrides = LiveOverrides
    /\ dryRun = FALSE
    /\ misses = <<>>
    /\ serverOpen = TRUE
    /\ h = EmptyBag
    /\ remote = (OldPlaylistId :> <<"t0">>)
    /\ reports = <<>>
    /\ createCalls = 0
    /\ gPc = "off"
    /\ gPages = <<>>
    /\ gNext = 0
    /\ gUris = <<>>
    /\ gFetched = <<>>
    /\ AddOff
    /\ SearchOff
    /\ NormOff

\* Every request that was sent is answered, with success or with an error.
EveryCallReturns ==
    /\ WF_vars(\E hd \in BagToSet(h) : TokenResponse(hd))
    /\ WF_vars(\E hd \in BagToSet(h) : GetMeResponse(hd))
    /\ WF_vars(\E hd \in BagToSet(h) : CreatePlaylistResponse(hd))
    /\ WF_vars(\E hd \in BagToSet(h) : StrictResponse(hd))
    /\ WF_vars(\E hd \in BagToSet(h) : LooseResponse(hd))
    /\ WF_vars(\E hd \in BagToSet(h) : TracksResponse(hd))
    /\ WF_vars(\E hd \in BagToSet(h) : InsertResponse(hd))

SpecLive == InitLive /\ [][Next]_vars /\ EveryCallReturns

(* ------------------------ getAlbumTracks alone ---------------------------- *)

\* Most pages of an album drawn by InitTracks.
MaxPages == 2

\* Most tracks on one such page.
MaxPageLen == 2

\* The chains of k pages: page n links to page n + 1, the last to null.
Chains(k) ==
    { pages \in [1..k -> [items : SeqsUpTo({"t1", "t2"}, MaxPageLen), next : 0..k]] :
        \A n \in 1..k : pages[n].next = IF n < k THEN n + 1 ELSE 0 }

\* getAlbumTracks is entered: uris is empty, next is the first page and,
\* being set, is requested.
InitTracks ==
    /\ \/ \E k \in 1..MaxPages : gPages \in Chains(k)
       \/ gPages = Album130
    /\ gPc = "fetch"
    /\ gNext = 1
    /\ gUris = <<>>
    /\ gFetched = <<1>>
    /\ entries = <<>>
    /\ overrides = <<>>
    /\ dryRun = TRUE
    /\ misses = <<>>
    /\ serverOpen = FALSE
    /\ h = EmptyBag
    /\ remote = (OldPlaylistId :> <<"t0">>)
    /\ reports = <<>>
    /\ createCalls = 0
    /\ AddOff
    /\ SearchOff
    /\ NormOff

\* The requested page answers: the loop body runs, then the next page is
\* requested or the function returns uris.
GatResponse ==
    /\ gPc = "fetch"
    /\ LET st == TracksStep([uris |-> gUris, next |-> gNext], gPages[gNext])
       IN  /\ gUris' = st.uris
           /\ gNext' = st.next
           /\ IF st.next # 0
              THEN gFetched' = Append(gFetched, st.next) /\ UNCHANGED gPc
              ELSE gPc' = "returned" /\ UNCHANGED gFetched
    /\ UNCHANGED <<gPages, runVars, addVars, srchVars, normVars>>

NextTracks == GatResponse

SpecTracks == InitTracks /\ [][NextTracks]_vars

(* --------------------------- addTracks alone ------------------------------ *)

\* Most identifiers addTracks is called with by InitAdd.
MaxIds == 250

\* No run: no list, no delivery, the auth server closed.
RunIdle ==
    /\ entries = <<>>
    /\ overrides = <<>>
    /\ dryRun = TRUE
    /\ misses = <<>>
    /\ serverOpen = FALSE
    /\ h = EmptyBag
    /\ remote = (OldPlaylistId :> <<"t0">>)
    /\ reports = <<>>
    /\ createCalls = 0

\* getAlbumTracks is not called alone.
GatOff == gPc = "off" /\ gPages = <<>> /\ gNext = 0 /\ gUris = <<>> /\ gFetched = <<>>

\* addTracks is entered with n identifiers, numbered in order: i = 0, and
\* when i < uris.length the first chunk is posted, otherwise it returns.
InitAdd ==
    /\ \E n \in 0..MaxIds : aUris = [k \in 1..n |-> k]
    /\ aAt = 0
    /\ aDone = 0
    /\ IF 0 < Len(aUris)
       THEN aPc = "post" /\ aSent = <<Chunk(aUris, 0)>>
       ELSE aPc = "returned" /\ aSent = <<>>
    /\ RunIdle
    /\ GatOff
    /\ SearchOff
    /\ NormOff

\* The posted chunk answers.  An error status makes spotifyFetch throw and
\* ends the function; otherwise i += 100 and the next chunk is posted when
\* i < uris.length.
AddResponse ==
    /\ aPc = "post"
    /\ aDone' = aDone + 1
    /\ \E ok \in BOOLEAN :
         IF ~ok
         THEN aPc' = "threw" /\ UNCHANGED <<aAt, aSent>>
         ELSE /\ aAt' = aAt + ChunkSize
              /\ IF aAt' < Len(aUris)
                 THEN aSent' = Append(aSent, Chunk(aUris, aAt')) /\ UNCHANGED aPc
                 ELSE aPc' = "returned" /\ UNCHANGED aSent
    /\ UNCHANGED <<aUris, runVars, gatVars, srchVars, normVars>>

NextAdd == AddResponse

SpecAdd == InitAdd /\ [][NextAdd]_vars

(* --------------------------- searchAlbum alone ---------------------------- *)

\* Most items of a result set drawn by InitSearch.
MaxCands == 2

\* Album names of the items: for the target album "Hd" one that is equal
\* once normalized, one that contains it, one it contains, one unrelated.
CandNames == { <<"H","D">>, <<"H","d","!","x">>, <<"h">>, <<"Q">> }

\* Their artists arrays: the target artist "X" first, another artist first,
\* another artist before the target artist, no artist.
CandArtists == { << <<"x">> >>, << <<"Y">> >>, << <<"Y">>, <<"X">> >>, <<>> }

\* The identifier of the n-th item of a result set.
CandId(n) == <<"i", n>>

\* The result sets of k items.
ResultSets(k) ==
    { [n \in 1..k |-> [id |-> CandId(n), name |-> f[n].name, artists |-> f[n].artists]] :
        f \in [1..k -> [name : CandNames, artists : CandArtists]] }

\* Result sets that leave the other stage to decide: none, or one unrelated
\* album of another artist.
FewResults == { <<>>, <<[id |-> CandId(1), name |-> <<"Q">>, artists |-> << <<"Y">> >>]>> }

\* searchAlbum is entered and the strict query is sent.  The target artist
\* is "X", or "!" whose normalized name is empty.
InitSearch ==
    /\ sTarget \in [artist : { <<"X">>, <<"!">> }, album : { <<"H","d">> }]
    /\ \/ /\ \E k \in 0..MaxCands : sStrict \in ResultSets(k)
          /\ sLoose \in FewResults
       \/ /\ sStrict \in FewResults
          /\ \E k \in 0..MaxCands : sLoose \in ResultSets(k)
    /\ sPc = "strict"
    /\ sCalls = 1
    /\ sResult = [found |-> FALSE]
    /\ RunIdle
    /\ GatOff
    /\ AddOff
    /\ NormOff

\* The strict query answers: strictBest is returned when there is one,
\* otherwise the loose query is sent.
SearchStrictAnswer ==
    /\ sPc = "strict"
    /\ LET best == StrictBest(sTarget.artist, sTarget.album, sStrict)
       IN  IF best.found
           THEN sResult' = best /\ sPc' = "returned" /\ UNCHANGED sCalls
           ELSE sPc' = "loose" /\ sCalls' = sCalls + 1 /\ UNCHANGED sResult
    /\ UNCHANGED <<sTarget, sStrict, sLoose, runVars, gatVars, addVars, normVars>>

\* The loose query answers and searchAlbum returns.
SearchLooseAnswer ==
    /\ sPc = "loose"
    /\ sResult' = LooseBest(sTarget.artist, sTarget.album, sLoose)
    /\ sPc' = "returned"
    /\ UNCHANGED <<sTarget, sStrict, sLoose, sCalls, runVars, gatVars, addVars, normVars>>

NextSearch == SearchStrictAnswer \/ SearchLooseAnswer

SpecSearch == InitSearch /\ [][NextSearch]_vars

(* ---------------------------- normalize alone ----------------------------- *)

\* Longest string normalize is called with by InitNorm.
MaxStrLen == 3

\* An upper-case and a lower-case letter, a digit, the ampersand, both
\* apostrophes, the hyphen, two whitespace characters and a character that
\* normalize deletes.
NormAlphabet == {"A", "b", "1", "&", "'", CurlyApostrophe, "-", " ", "\t", "!"}

\* normalize is about to be called with a string over the alphabet.
InitNorm ==
    /\ nIn \in SeqsUpTo(NormAlphabet, MaxStrLen)
    /\ nPc = "in"
    /\ nOnce = <<>>
    /\ nTwice = <<>>
    /\ RunIdle
    /\ GatOff
    /\ AddOff
    /\ SearchOff

\* normalize(s)
NormOnce ==
    /\ nPc = "in"
    /\ nOnce' = normalize(nIn)
    /\ nPc' = "once"
    /\ UNCHANGED <<nIn, nTwice, runVars, gatVars, addVars, srchVars>>

\* normalize of that result
NormTwice ==
    /\ nPc = "once"
    /\ nTwice' = normalize(nOnce)
    /\ nPc' = "twice"
    /\ UNCHANGED <<nIn, nOnce, runVars, gatVars, addVars, srchVars>>

NextNorm == NormOnce \/ NormTwice

SpecNorm == InitNorm /\ [][NextNorm]_vars

(* ------------------------- vocabulary of the claims ---------------------- *)

\* The invocations of the handler, each once.
Invocations == BagToSet(h)

SearchPcs == {"searchStrict", "searchLoose"}

\* The pcs at which a catalog call for entry hd.i is in flight.
EntryPcs == SearchPcs \cup {"tracks", "insert"}

\* The pcs at which a catalog call is in flight.
CatalogPcs == EntryPcs \cup {"getMe", "createPlaylist"}

\* The override map's answer for entry j of the list.
OverrideOf(j) == Lookup(overrides, keyFor(entries[j].artist, entries[j].album))

\* v begins with "spotify:album:".
HasUriPrefix(v) ==
    Len(v) >= Len(AlbumUriPrefix) /\ SubSeq(v, 1, Len(AlbumUriPrefix)) = AlbumUriPrefix

\* v without a leading "spotify:album:".
WithoutUriPrefix(v) ==
    IF HasUriPrefix(v) THEN SubSeq(v, Len(AlbumUriPrefix) + 1, Len(v)) ELSE v

\* Artist or album empty after trimming.
EmptyField(e) == Trim(e.artist) = <<>> \/ Trim(e.album) = <<>>

\* The two searches for e give a candidate.
SearchFinds(e) ==
    \/ StrictBest(e.artist, e.album, StrictResults(e.artist, e.album)).found
    \/ LooseBest(e.artist, e.album, LooseResults(e.artist, e.album)).found

\* The number of outcomes SKIP an invocation has printed.
Skips(hd) == Cardinality({j \in DOMAIN hd.out : hd.out[j] = "SKIP"})

RECURSIVE TotalSkips(_)
\* The outcomes SKIP printed by the invocations in S, each invocation counted
\* as often as it occurs.
TotalSkips(S) ==
    IF S = {} THEN 0
    ELSE LET x == CHOOSE y \in S : TRUE
         IN  CopiesIn(x, h) * Skips(x) + TotalSkips(S \ {x})

\* A step in which some invocation sends a catalog call: a record awaiting a
\* catalog answer appears.
SendsCatalogCall ==
    \E hd \in BagToSet(h') : hd.pc \in CatalogPcs /\ CopiesIn(hd, h') > CopiesIn(hd, h)

(* -------------------------------- claims --------------------------------- *)

\* C1, as stated: for every entry whose key is present in the override map
\* no invocation has a search in flight for it, and the album whose tracks
\* are fetched for it is the override's value without a leading
\* "spotify:album:".
C1_KeyPresentNeverSearched ==
    \A hd \in Invocations :
        (hd.pc \in EntryPcs /\ OverrideOf(hd.i).present) =>
            /\ hd.pc \notin SearchPcs
            /\ hd.albumId = WithoutUriPrefix(OverrideOf(hd.i).value)

\* C1, amended: for every entry whose key has a non-empty value in the
\* override map no invocation has a search in flight for it, and the album
\* whose tracks are fetched for it is the value without its leading
\* "spotify:album:" when at least one character follows that prefix and the
\* value holds no line break, and the value itself otherwise.
C1_NonEmptyOverrideNeverSearched ==
    \A hd \in Invocations :
        (hd.pc \in EntryPcs /\ OverrideOf(hd.i).present
                             /\ OverrideOf(hd.i).value # <<>>) =>
            /\ hd.pc \notin SearchPcs
            /\ hd.albumId =
                 IF \/ OverrideOf(hd.i).value = AlbumUriPrefix
                    \/ "\n" \in Range(OverrideOf(hd.i).value)
                 THEN OverrideOf(hd.i).value
                 ELSE WithoutUriPrefix(OverrideOf(hd.i).value)

\* C1, witness: the tracks of the album pinned by a "spotify:album:" override
\* are being fetched.
C1_Witness ==
    \E hd \in Invocations :
        /\ hd.pc = "tracks"
        /\ OverrideOf(hd.i).present
        /\ OverrideOf(hd.i).value = AlbumUriPrefix \o AlbumA1
        /\ hd.albumId = AlbumA1

\* C2: in a dry run no createPlaylist and no insertion request is ever sent
\* and no playlist of the service changes; every entry that resolves to an
\* album and is finished was printed as WOULD ADD and is not among the
\* misses; every report written has dryRun = TRUE.
C2_DryRunMutatesNothing ==
    dryRun =>
        /\ createCalls = 0
        /\ \A hd \in Invocations : hd.pc \notin {"getMe", "createPlaylist", "insert"}
        /\ remote = (OldPlaylistId :> <<"t0">>)
        /\ \A hd \in Invocations : \A j \in DOMAIN hd.out :
             IF ~EmptyField(entries[j]) /\ (Truthy(OverrideOf(j)) \/ SearchFinds(entries[j]))
             THEN hd.out[j] = "WOULD ADD"
             ELSE hd.out[j] \in {"SKIP", "MISS"}
        /\ \A n \in DOMAIN misses :
             EmptyField(misses[n]) \/
             ~(Truthy(Lookup(overrides, keyFor(misses[n].artist, misses[n].album)))
                 \/ SearchFinds(misses[n]))
        /\ \A n \in DOMAIN reports : reports[n].dryRun = TRUE

\* C2, witness: a dry run has written its report after an entry was printed
\* as WOULD ADD.
C2_Witness ==
    /\ dryRun
    /\ reports # <<>>
    /\ \E hd \in Invocations : hd.pc = "done" /\ "WOULD ADD" \in Range(hd.out)

\* C3, as stated: createPlaylist is called at most once in a run, however
\* many /callback requests reach the handler; every insertion goes to the
\* playlist of the run; the playlist that existed before is unchanged.
C3_AtMostOnePlaylist ==
    /\ createCalls <= 1
    /\ Cardinality(DOMAIN remote) <= 2
    /\ remote[OldPlaylistId] = <<"t0">>

\* C4, as stated: the misses of every report written are exactly the entries
\* that are malformed or unresolved (not in the override map, no candidate
\* from either search), each once, in list order, with their original text.
C4_MissesAreTheUnresolvedEntries ==
    LET Missed(e) == EmptyField(e) \/
                     (~Lookup(overrides, keyFor(e.artist, e.album)).present
                        /\ ~SearchFinds(e))
    IN  \A n \in DOMAIN reports : reports[n].misses = SelectSeq(entries, Missed)

\* C5: a malformed entry is printed as SKIP and recorded as a miss, once for
\* every time it is processed; no invocation ever awaits a search, a track
\* page or an insertion for it; the invocation goes on with the next entry
\* (it has an outcome for every entry before the one it is at).
C5_MalformedIsSkipped ==
    /\ \A hd \in Invocations :
         /\ \A j \in DOMAIN hd.out : EmptyField(entries[j]) <=> hd.out[j] = "SKIP"
         /\ hd.pc \in EntryPcs => ~EmptyField(entries[hd.i])
         /\ hd.pc \in EntryPcs \cup {"done"} => Len(hd.out) = hd.i - 1
    /\ Cardinality({n \in DOMAIN misses : EmptyField(misses[n])}) = TotalSkips(Invocations)

\* C5, witness: an invocation has skipped a malformed first entry, recorded
\* it and awaits a call for the second entry.
C5_Witness ==
    \E hd \in Invocations :
        /\ hd.pc \in EntryPcs
        /\ hd.i = 2
        /\ EmptyField(entries[1])
        /\ hd.out = <<"SKIP">>
        /\ entries[1] \in Range(misses)

\* A step in which some invocation sends a search, a track page request
\* or an insertion.
SendsEntryCall ==
    \E hd \in BagToSet(h') : hd.pc \in EntryPcs /\ CopiesIn(hd, h') > CopiesIn(hd, h)

\* The invocation hd takes this step.
Steps(hd) == CopiesIn(hd, h') < CopiesIn(hd, h)

\* This step ends an invocation in the catch clause.
Aborts == \E x \in BagToSet(h') : x.pc = "failed" /\ CopiesIn(x, h') > CopiesIn(x, h)

\* C6, as stated: the report is written once in a run, by an invocation that
\* has an outcome for every entry, and after it is written no search, track
\* page request or insertion is sent.
C6_ReportOnceAtTheEnd ==
    [][ /\ reports' # reports =>
             /\ reports = <<>>
             /\ \E hd \in BagToSet(h') : hd.pc = "done" /\ Len(hd.out) = Len(entries)
        /\ reports # <<>> => (reports' = reports /\ ~SendsEntryCall) ]_vars

\* C7, as stated: an entry whose searches give no candidate, and an entry
\* whose override names no album of the catalog, is recorded as a miss when
\* its pending request is answered, and the run is not aborted by it.
C7_ResolutionMissesAreNotFatal ==
    [][ \A hd \in BagToSet(h) :
          (/\ Steps(hd)
           /\ \/ hd.pc = "tracks" /\ Truthy(OverrideOf(hd.i))
                                  /\ hd.albumId \notin DOMAIN CatalogPages
              \/ hd.pc = "searchLoose" /\ ~SearchFinds(entries[hd.i]))
          => (misses' # misses /\ misses'[Len(misses) + 1] = entries[hd.i]) \/
             (hd.pc = "searchLoose" /\ Aborts) ]_vars

\* C8, as stated: once a catalog call has failed no catalog call is sent
\* any more and no report is written.
C8_TransportErrorEndsTheRun ==
    [][ (\E hd \in BagToSet(h) : hd.pc = "failed" /\ hd.err \in {"transport", "insert"})
          => (~SendsCatalogCall /\ reports' = reports) ]_vars

\* C9, as stated: once a callback was refused (no code, wrong state) or a
\* token exchange has failed no catalog call is sent any more and no report
\* is written.
C9_AuthErrorEndsTheRun ==
    [][ (\E hd \in BagToSet(h) : hd.pc = "failed" /\ hd.err = "auth")
          => (~SendsCatalogCall /\ reports' = reports) ]_vars

RECURSIVE ConcatItems(_)
\* The items of the pages, page after page.
ConcatItems(pages) ==
    IF pages = <<>> THEN <<>> ELSE pages[1].items \o ConcatItems(Tail(pages))

\* C10: getAlbumTracks requests the pages of a chain of k pages in chain
\* order, each once; when it returns it has requested exactly k pages and
\* its result is the items of the pages in page order and within-page order
\* (a single empty page: the empty result after one request); for 130 tracks
\* at page size 50 that is 3 requests and 130 identifiers in catalog order.
C10_TracksFollowTheChain ==
    gPc # "off" =>
        /\ gFetched = [n \in 1..Len(gFetched) |-> n]
        /\ gPc = "fetch" => gUris = ConcatItems(SubSeq(gPages, 1, Len(gFetched) - 1))
        /\ gPc = "returned" =>
             /\ Len(gFetched) = Len(gPages)
             /\ gUris = ConcatItems(gPages)
        /\ (gPc = "returned" /\ gPages = Album130) =>
             /\ Len(gFetched) = 3
             /\ gUris = [n \in 1..130 |-> n]

\* C10, witness: getAlbumTracks has returned the 130 tracks after 3 requests.
C10_Witness ==
    /\ gPc = "returned"
    /\ gPages = Album130
    /\ Len(gFetched) = 3
    /\ Len(gUris) = 130

(* ------------------------------- addTracks ------------------------------- *)

RECURSIVE ConcatAll(_)
\* The concatenation of a sequence of sequences.
ConcatAll(seqs) ==
    IF seqs = <<>> THEN <<>> ELSE Head(seqs) \o ConcatAll(Tail(seqs))

\* ceil(n / ChunkSize)
ChunksFor(n) == (n + ChunkSize - 1) \div ChunkSize

\* C11: addTracks posts non-empty chunks of at most 100 identifiers that are,
\* put end to end, a prefix of its input; a chunk is posted only after every
\* chunk before it has answered; and when it returns it has posted exactly
\* ceil(n / 100) chunks (none for n = 0) that make up the whole input: 250
\* identifiers go in chunks of 100, 100 and 50.
C11_ChunksCoverTheInput ==
    /\ \A k \in DOMAIN aSent : 1 <= Len(aSent[k]) /\ Len(aSent[k]) <= 100
    /\ Len(ConcatAll(aSent)) <= Len(aUris)
    /\ ConcatAll(aSent) = SubSeq(aUris, 1, Len(ConcatAll(aSent)))
    /\ Len(aSent) <= aDone + 1
    /\ aPc = "post" => Len(aSent) = aDone + 1
    /\ aPc = "returned" =>
         /\ Len(aSent) = ChunksFor(Len(aUris))
         /\ aDone = Len(aSent)
         /\ ConcatAll(aSent) = aUris
         /\ Len(aUris) = 0 => aSent = <<>>
         /\ Len(aUris) = 250 =>
              [k \in DOMAIN aSent |-> Len(aSent[k])] = <<100, 100, 50>>

\* addTracks has returned after posting 250 identifiers in three chunks.
C11_Witness ==
    aPc = "returned" /\ Len(aUris) = 250 /\ Len(aSent) = 3 /\ aDone = 3

(* ------------------------------ searchAlbum ------------------------------ *)

\* The normalized target album and artist of the search.
TargetAlbum == normalize(sTarget.album)

TargetArtist == normalize(sTarget.artist)

\* Item it has the target's album name, once both are normalized.
NameEqual(it) == normalize(it.name) = TargetAlbum

\* Its first artist (none: the empty name) is the target's, once normalized.
ArtistEqual(it) == normalize(FirstArtist(it)) = TargetArtist

\* n is the least member of the set of indexes S.
Least(n, S) == n \in S /\ \A m \in S : n <= m

\* Indexes of the strict items equal in name and artist, and in name.
StrictBoth == { n \in DOMAIN sStrict : NameEqual(sStrict[n]) /\ ArtistEqual(sStrict[n]) }

StrictName == { n \in DOMAIN sStrict : NameEqual(sStrict[n]) }

\* C12: once the strict query has answered, the loose query is sent exactly
\* when no strict item has the target's normalized album name; otherwise
\* searchAlbum returns, after that one request, the first strict item equal
\* in normalized name and first artist, or, without such an item, the first
\* equal in normalized name.  There are one or two requests, never more.
C12_StrictStage ==
    /\ sPc # "off" => sCalls \in {1, 2}
    /\ sPc = "strict" => sCalls = 1
    /\ sPc = "loose" => sCalls = 2 /\ StrictName = {}
    /\ sPc = "returned" =>
         /\ sCalls = 2 <=> StrictName = {}
         /\ sCalls = 1 =>
              /\ sResult.found
              /\ \E n \in DOMAIN sStrict :
                   /\ sResult.item = sStrict[n]
                   /\ IF StrictBoth # {} THEN Least(n, StrictBoth)
                                         ELSE Least(n, StrictName)

\* searchAlbum has returned, after one request, an item equal in name and
\* artist that stands behind an item equal in name only.
C12_Witness ==
    /\ sPc = "returned"
    /\ sCalls = 1
    /\ Len(sStrict) = 2
    /\ 1 \in StrictName \ StrictBoth
    /\ 2 \in StrictBoth
    /\ sResult.item = sStrict[2]

\* Indexes of the loose items of the pool: those of the target's first
\* artist, or every item when there is none.
SameArtist == { n \in DOMAIN sLoose : ArtistEqual(sLoose[n]) }

Pool == IF SameArtist # {} THEN SameArtist ELSE DOMAIN sLoose

\* Pool items whose normalized name contains the normalized target album,
\* and those whose normalized name the target contains.
PoolContains == { n \in Pool : Includes(normalize(sLoose[n].name), TargetAlbum) }

PoolContained == { n \in Pool : Includes(TargetAlbum, normalize(sLoose[n].name)) }

\* C13: when searchAlbum returns after the loose query, the result is null
\* exactly when the loose result set is empty; otherwise it is the first
\* pool item whose normalized name contains the target album, else the
\* first whose normalized name the target contains, else the first of the
\* pool.
C13_LooseStage ==
    sPc = "returned" /\ sCalls = 2 =>
      /\ sResult.found <=> sLoose # <<>>
      /\ sResult.found =>
           \E n \in DOMAIN sLoose :
             /\ sResult.item = sLoose[n]
             /\ IF PoolContains # {} THEN Least(n, PoolContains)
                ELSE IF PoolContained # {} THEN Least(n, PoolContained)
                ELSE Least(n, Pool)

\* searchAlbum has returned from the loose stage the second item: it is of
\* the target's artist, the first is not although its name contains the
\* target album.
C13_Witness ==
    /\ sPc = "returned"
    /\ sCalls = 2
    /\ Len(sLoose) = 2
    /\ SameArtist = {2}
    /\ Includes(normalize(sLoose[1].name), TargetAlbum)
    /\ sResult.found
    /\ sResult.item = sLoose[2]

(* ------------------------------- normalize ------------------------------- *)

\* C14: normalize applied to its own result changes nothing:
\* normalize(normalize(s)) = normalize(s) for every string s over the
\* alphabet.
C14_NormalizeIsIdempotent == nPc = "twice" => nTwice = nOnce

\* normalize has been applied twice to "A&!": the first result, "aand", is
\* not the input.
C14_Witness ==
    /\ nPc = "twice"
    /\ nIn = <<"A", "&", "!">>
    /\ nOnce = <<"a", "a", "n", "d">>

(* ------------------------- insertion into the playlist ------------------- *)

\* The album entry j resolves to: the pinned one, else the one the searches
\* select, else none (the empty identifier).
AlbumOf(j) ==
    LET e == entries[j]
        strict == StrictBest(e.artist, e.album, StrictResults(e.artist, e.album))
        loose == LooseBest(e.artist, e.album, LooseResults(e.artist, e.album))
    IN  IF EmptyField(e) THEN <<>>
        ELSE IF Truthy(OverrideOf(j)) THEN WithoutUriPrefix(OverrideOf(j).value)
        ELSE IF strict.found THEN strict.item.id
        ELSE IF loose.found THEN loose.item.id
        ELSE <<>>

\* The tracks of entry j in catalog page order; none when it is unresolved.
TracksOf(j) ==
    IF AlbumOf(j) \in DOMAIN CatalogPages THEN ConcatItems(CatalogPages[AlbumOf(j)])
    ELSE <<>>

RECURSIVE TracksUpTo(_)
\* The tracks of the entries 1..k, entry after entry.
TracksUpTo(k) == IF k = 0 THEN <<>> ELSE TracksUpTo(k - 1) \o TracksOf(k)

\* The step in which the pending insertion request of hd fails.
InsertionFails(hd) ==
    /\ hd.pc = "insert"
    /\ Steps(hd)
    /\ CopiesIn(ThrowInsert(Ctx(hd)).hd, h') > CopiesIn(ThrowInsert(Ctx(hd)).hd, h)

\* C15, as stated: when the insertion request for a chunk fails, nothing is
\* taken back and the playlist holds the tracks of the earlier entries and
\* the chunks of this album before the failing one; and once the request for
\* a chunk of entry i has failed no request is sent for a later entry and no
\* later chunk of entry i is posted.
C15_FailedChunkEndsTheRun ==
    [][ /\ \A hd \in BagToSet(h) :
             InsertionFails(hd) =>
               /\ remote' = remote
               /\ remote[hd.playlistId] =
                    TracksUpTo(hd.i - 1) \o SubSeq(hd.uris, 1, hd.chunkAt)
        /\ \A x \in BagToSet(h) :
             x.pc = "failed" /\ x.err = "insert" =>
               \A y \in BagToSet(h') :
                 (y.pc \in EntryPcs /\ CopiesIn(y, h') > CopiesIn(y, h)) =>
                   /\ y.i <= x.i
                   /\ (y.i = x.i /\ y.pc = "insert") => y.chunkAt <= x.chunkAt ]_vars

(* ------------------------------ one at a time ---------------------------- *)

\* C16, as stated: at any time at most one search, track page or insertion
\* request is awaiting its answer, and the invocation that awaits it has
\* finished every entry before the one the request is for.
C16_OneCallInFlight ==
    /\ \A x \in Invocations, y \in Invocations :
         (x.pc \in EntryPcs /\ y.pc \in EntryPcs) => (x = y /\ CopiesIn(x, h) = 1)
    /\ \A x \in Invocations : x.pc \in EntryPcs => Len(x.out) = x.i - 1

(* --------------------------- what the playlist holds --------------------- *)

\* C17: when an invocation of a live run has written its report, the playlist
\* it created holds, in order, the tracks of every resolved entry in list
\* order, each album's tracks in catalog page order, and nothing else.
C17_PlaylistIsTheConcatenation ==
    ~dryRun =>
      \A hd \in Invocations :
        hd.pc = "done" => remote[hd.playlistId] = TracksUpTo(Len(entries))

\* A live run over the album of 130 tracks and the album of three tracks has
\* ended: its playlist holds 133 tracks.
C17_Witness ==
    /\ ~dryRun
    /\ Len(entries) = 2
    /\ AlbumOf(1) = AlbumA2
    /\ AlbumOf(2) = AlbumA3
    /\ \E hd \in Invocations :
         hd.pc = "done" /\ Len(remote[hd.playlistId]) = 133

(* ----------------------------- the playlist id --------------------------- *)

\* C18: in a live run an invocation that is in the loop over the entries, or
\* past it, has its playlist id set, and no invocation has printed the
\* outcome ERROR (no playlistId) for an entry.
C18_PlaylistIdIsSetInTheLoop ==
    ~dryRun =>
      \A hd \in Invocations :
        /\ hd.pc \in EntryPcs \cup {"done"} =>
             (hd.playlistId # NoPlaylist /\ hd.playlistId \in DOMAIN remote)
        /\ \A j \in DOMAIN hd.out : hd.out[j] # "ERROR"

\* A live run has fetched the tracks of an entry and inserted them.
C18_Witness ==
    /\ ~dryRun
    /\ \E hd \in Invocations :
         /\ hd.pc = "done"
         /\ \E j \in DOMAIN hd.out : hd.out[j] = "OK"

(* ------------------------------- termination ----------------------------- *)

\* Some entry of the list resolves to the album whose pages link in a circle.
HasLoopEntry == \E j \in DOMAIN entries : AlbumOf(j) = AlbumLoop

\* Every invocation has written its report or has ended in the catch clause.
AllEnded ==
    /\ h # EmptyBag
    /\ \A hd \in Invocations : hd.pc \in {"done", "failed"}

\* C19: when every request is answered and no album's pages link in a
\* circle, a delivered callback leads to every invocation having written its
\* report or ended with an error.  On the album whose pages link in a circle
\* an answered page request is followed by another page request or by the
\* error of that request, never by the rest of the loop, and no invocation
\* of a run with such an entry writes a report.
C19_RunEndsOnFiniteChains ==
    /\ ((\E hd \in Invocations : hd.pc = "token") /\ ~HasLoopEntry) ~> AllEnded
    /\ [][ \A hd \in BagToSet(h) :
             (hd.pc = "tracks" /\ hd.albumId = AlbumLoop /\ Steps(hd)) =>
               \E x \in BagToSet(h') :
                 /\ CopiesIn(x, h') > CopiesIn(x, h)
                 /\ \/ x.pc = "failed"
                    \/ x.pc = "tracks" /\ x.albumId = AlbumLoop /\ x.i = hd.i
                                       /\ x.fetches = hd.fetches + 1 ]_vars
    /\ [](HasLoopEntry => \A hd \in Invocations : hd.pc # "done")

\* A live run over a list without the circular album has ended with its
\* report, after the requests for a miss and for an album of two pages.
C19_Witness ==
    /\ ~HasLoopEntry
    /\ Len(entries) = 2
    /\ \E hd \in Invocations : hd.pc = "done" /\ hd.out = <<"MISS", "OK">>

====
